---- MODULE Spec2Model ----
(***************************************************************************)
(* Retrieval engine of the book catalog (backend/db/repository.py,         *)
(* class BookRepository), the four agent tools that call it                *)
(* (backend/agents/tools/*.py), the lazily loaded models of the tool       *)
(* modules, the catalog import (backend/import_books.py), the agent        *)
(* workflow (backend/agents/agent.py) and the websocket handler with the   *)
(* conversation table (backend/main.py, backend/db/models.py).             *)
(*                                                                         *)
(* A text is a sequence of characters; a character is a one-token string.  *)
(* The two tokens "n~" and "N~" stand for the non-ASCII pair n-tilde /     *)
(* N-tilde of the Spanish catalog ("Cien an~os de soledad").               *)
(*                                                                         *)
(* Optional[str] arguments are texts too: None and "" are both the empty   *)
(* text, because the code only ever tests them for truthiness.             *)
(***************************************************************************)
EXTENDS Integers, Sequences, FiniteSets, TLC

VARIABLES
    books,      \* table books: row id -> [titulo, autor, genero]; ids are 1..Len(books)
    vss_books,  \* rowids of the virtual table vss_books (one embedding each)
    call,       \* the last repository call: its arguments, locals and return value
    prev,       \* the call before it, while a caller repeats a call
    _model,     \* per tool module: the global _model (None or the loaded model)
    _llm_model, \* per tool module that has one: the global _llm_model
    thread,     \* per thread: the tool function it runs and where it stands in it
    constructed,    \* how often each expensive class was constructed in the process
    importer,   \* import_books: its locals, the isbn column, the records of vss_books
    node,       \* the node of the agent workflow that runs next
    messages,   \* state["messages"] of the workflow
    input_user, \* state["input_user"]
    trace,      \* the nodes the invocation has run, in order
    invocations,    \* model invocations of the invocation so far
    websocket,  \* per connection: frames not yet read, envelopes sent, open or closed
    handler,    \* per connection: where WebSocketHandler.handler stands
    tasks,      \* per connection: the branches of asyncio.gather still running
    conversations,  \* table conversations: [message, role, timestamp]
    now,        \* the clock, in minutes
    history,    \* per connection: the rows the last start node loaded
    faults      \* failures of the agent, of persistence and of downstream services so far

catalog   == <<books, vss_books>>
retrieval == <<call, prev>>
process   == <<_model, _llm_model, thread, constructed>>
workflow  == <<node, messages, input_user, trace, invocations>>
server    == <<websocket, handler, tasks, conversations, now, history, faults>>

vars == <<catalog, retrieval, process, importer, workflow, server>>

-----------------------------------------------------------------------------
(* Bounds of the model *)

\* largest catalog of the main specification
MaxBooks == 3
\* largest value of the limit argument
MaxLimit == 2

-----------------------------------------------------------------------------
(* Texts *)

\* the empty text: "" and None
Empty == << >>

Min(a, b) == IF a < b THEN a ELSE b

\* a slice that forgets its bound: s[:n] written as s
Take_Whole(s, n) == s

\* s[1..n]
Take(s, n) == SubSeq(s, 1, Min(n, Len(s)))

\* the elements of a sequence
Range(s) == {s[i] : i \in DOMAIN s}

\* Python's whitespace
IsSpace(c) == c = " "

\* SQLite's built-in case folding (LIKE and lower()): ASCII letters only,
\* so "N~" (a non-ASCII capital) is left alone
SqlFold(c) ==
    CASE c = "A" -> "a"
      [] c = "B" -> "b"
      [] c = "G" -> "g"
      [] OTHER -> c

\* SQL: s LIKE p from position (i, j) on; % is any run, _ is any one character
RECURSIVE LikeAt(_, _, _, _)
LikeAt(s, p, i, j) ==
    IF j > Len(p) THEN i > Len(s)
    ELSE IF p[j] = "%"
         THEN LikeAt(s, p, i, j + 1) \/ (i <= Len(s) /\ LikeAt(s, p, i + 1, j))
         ELSE /\ i <= Len(s)
              /\ (p[j] = "_" \/ SqlFold(p[j]) = SqlFold(s[i]))
              /\ LikeAt(s, p, i + 1, j + 1)

\* SQL: s LIKE p
Like(s, p) == LikeAt(s, p, 1, 1)

\* the filter the code builds everywhere: column LIKE f"%{w}%" (and ilike)
LikeContains(s, w) == Like(s, <<"%">> \o w \o <<"%">>)

\* Python: s.strip()
RECURSIVE Strip(_)
Strip(s) ==
    IF s = Empty THEN Empty
    ELSE IF IsSpace(Head(s)) THEN Strip(Tail(s))
    ELSE IF IsSpace(s[Len(s)]) THEN Strip(SubSeq(s, 1, Len(s) - 1))
    ELSE s

\* Python: s.split(sep) for a one-character sep; "".split(",") is [""]
RECURSIVE SplitOn(_, _)
SplitOn(s, sep) ==
    IF \A i \in DOMAIN s : s[i] # sep THEN <<s>>
    ELSE LET k == CHOOSE i \in DOMAIN s : s[i] = sep /\ \A j \in 1..(i - 1) : s[j] # sep
         IN  <<SubSeq(s, 1, k - 1)>> \o SplitOn(SubSeq(s, k + 1, Len(s)), sep)

\* Python: s.split(): the maximal runs of non-whitespace; "".split() is []
RECURSIVE SplitWords(_)
SplitWords(s) ==
    IF s = Empty THEN << >>
    ELSE IF IsSpace(Head(s)) THEN SplitWords(Tail(s))
    ELSE LET stops == {i \in DOMAIN s : IsSpace(s[i])}
             k == IF stops = {} THEN Len(s) + 1
                  ELSE CHOOSE i \in stops : \A j \in stops : i <= j
         IN  <<SubSeq(s, 1, k - 1)>> \o SplitWords(SubSeq(s, k, Len(s)))

\* [g.strip() for g in label.split(',')]
GenreTokens(label) ==
    LET parts == SplitOn(label, ",")
    IN  [i \in DOMAIN parts |-> Strip(parts[i])]

-----------------------------------------------------------------------------
(* The catalog *)

\* the rows the catalogs of the model are built from
BookPool ==
    { [titulo |-> <<"a", "b">>, autor |-> <<"A", " ", "b">>,       genero |-> <<"g", ",", " ", "h">>],
      [titulo |-> <<"N~">>,     autor |-> <<"b", ",", " ", "a">>,  genero |-> <<"g">>],
      [titulo |-> <<"a">>,      autor |-> <<"a", " ", "c">>,       genero |-> <<"G">>],
      [titulo |-> <<"c">>,      autor |-> <<"c">>,                 genero |-> <<"k">>] }

\* every sequence over S of length at most n
SeqsUpTo(S, n) == UNION {[1..k -> S] : k \in 0..n}

\* the row ids of table books
Ids == DOMAIN books

\* the ids in `ids`, in rowid order (the order of a scan of table books)
RECURSIVE InIdOrder(_)
InIdOrder(ids) ==
    IF ids = {} THEN << >>
    ELSE LET m == CHOOSE i \in ids : \A j \in ids : i <= j
         IN  <<m>> \o InIdOrder(ids \ {m})

\* SQL: SELECT ... FROM books WHERE id IN (ids), without ORDER BY
BooksWithIdIn(ids) == InIdOrder({i \in Ids : i \in Range(ids)})

-----------------------------------------------------------------------------
(* The vector index *)

\* model.encode(text) followed by vss_search: the embedding model is opaque, so
\* the order in which the index ranks its rows for a text is an input of the
\* call. The orders tried are the rotations of the rowid order and their
\* reversals (all orders of up to three rows).
NeighbourOrders(rows) ==
    LET n == Cardinality(rows)
        base == InIdOrder(rows)
        Rot(r) == [i \in 1..n |-> base[((i + r - 1) % n) + 1]]
        Rev(s) == [i \in 1..n |-> s[n + 1 - i]]
    IN  IF n = 0 THEN {<< >>}
        ELSE {Rot(r) : r \in 0..(n - 1)} \cup {Rev(Rot(r)) : r \in 0..(n - 1)}

\* an index whose ranking depends on what was asked before: the neighbours
\* come in the opposite order once a call has been made
VssSearch_Drifting(order, k) ==
    IF call.op = "none" THEN Take(order, k)
    ELSE Take([i \in DOMAIN order |-> order[Len(order) + 1 - i]], k)

\* the search without its LIMIT
VssSearch_Unlimited(order, k) == order

\* SELECT rowid, distance FROM vss_books WHERE vss_search(embedding, ?) LIMIT k
VssSearch(order, k) == Take(order, k)

-----------------------------------------------------------------------------
(* Repository calls *)

\* the record of a call before anything ran: arguments, locals, return value.
\* rows holds the ids of the rows whose dictionaries are returned (for
\* search_by_title: one id, or none for None); 0 and Empty stand for None.
NoCall ==
    [ op |-> "none", via |-> "repo",
      text |-> Empty, author |-> Empty, genre |-> Empty,
      limit |-> 0, model |-> FALSE, llm_model |-> FALSE, reply |-> Empty,
      order |-> << >>,
      path |-> "none", raised |-> FALSE, rows |-> << >>,
      encoded |-> FALSE, connections |-> 0, closed |-> 0, llm_invoked |-> FALSE,
      ref_book_id |-> 0, ref_genre |-> Empty,
      genres |-> {}, actual_author |-> Empty, genre_book_ids |-> {} ]

\* get_db_connection_with_vec() when conn.load_extension raises: the
\* connection is open, the exception leaves the helper and then the
\* repository method, which has encoded its text and not yet entered its try
\* block; a call that never asks for the connection is as it was
ExtensionLoadFails(c) ==
    IF c.connections = 0 THEN c
    ELSE [NoCall EXCEPT !.op = c.op, !.via = c.via, !.text = c.text,
                        !.author = c.author, !.genre = c.genre, !.limit = c.limit,
                        !.model = c.model, !.llm_model = c.llm_model,
                        !.reply = c.reply, !.order = c.order,
                        !.encoded = TRUE, !.connections = 1, !.closed = 0,
                        !.path = "load_extension", !.raised = TRUE]

\* the dictionaries a call returned
Returned(c) == [i \in DOMAIN c.rows |-> books[c.rows[i]]]

\* BookRepository.search_by_title(query, model, limit)
SearchByTitle(query, limit, order) ==
    LET args == [NoCall EXCEPT !.op = "search_by_title", !.text = query,
                               !.limit = limit, !.model = TRUE, !.order = order]
        \* Book.titulo.ilike(f"%{query}%") ... .first()
        exact == InIdOrder({i \in Ids : LikeContains(books[i].titulo, query)})
        vss_results == VssSearch(order, limit)
        vector == [args EXCEPT !.encoded = TRUE,
                             !.connections = 1, !.closed = 1]
    IN  IF exact # << >>
        THEN [args EXCEPT !.path = "exact", !.rows = <<exact[1]>>]
        ELSE IF vss_results = << >>
        THEN [vector EXCEPT !.path = "vector_empty"]
        ELSE IF vss_results[1] \in Ids
        THEN [vector EXCEPT !.path = "vector", !.rows = <<vss_results[1]>>]
        ELSE [vector EXCEPT !.path = "vector_no_row"]

\* the rows of `ids` (in scan order) whose autor matches every word
AuthorWordsMatch(ids, words) ==
    InIdOrder({i \in ids : \A k \in DOMAIN words : LikeContains(books[i].autor, words[k])})

\* the 10 of search_by_criteria's "LIMIT 10" candidate window
AuthorSearchCandidates == 10

\* BookRepository.search_by_criteria(author, genre, query, model, limit)
SearchByCriteria(author, genre, query, model, limit, order) ==
    LET args == [NoCall EXCEPT !.op = "search_by_criteria", !.text = query,
                               !.author = author, !.genre = genre, !.limit = limit,
                               !.model = model, !.order = order]
        \* if query and model: vector search, returned from inside the branch
        vss_results == VssSearch(order, limit)
        free == [args EXCEPT !.encoded = TRUE,
                             !.connections = 1, !.closed = 1]
        \* if author and model: candidate window, then the author words
        candidates == VssSearch(order, AuthorSearchCandidates)
        author_words == SplitWords(author)
        matched == Take(AuthorWordsMatch(Ids \cap Range(candidates), author_words), limit)
        windowed == [args EXCEPT !.encoded = TRUE,
                             !.connections = 1, !.closed = 1]
        \* the session query the code ends with: author words only "if author
        \* and not model", genre "if genre", then .limit(limit)
        by_author == IF author # Empty /\ ~model
                     THEN Range(AuthorWordsMatch(Ids, author_words))
                     ELSE Ids
        by_genre == IF genre # Empty
                    THEN {i \in by_author : LikeContains(books[i].genero, genre)}
                    ELSE by_author
        fallback == Take(InIdOrder(by_genre), limit)
    IN  IF query # Empty /\ model
        THEN IF vss_results = << >>
             THEN [free EXCEPT !.path = "free_text_empty"]
             ELSE [free EXCEPT !.path = "free_text", !.rows = BooksWithIdIn(vss_results)]
        ELSE IF author # Empty /\ model
        THEN IF candidates # << >> /\ author_words = << >>
             \* "... AND ()" is no SQL: sqlite3.OperationalError
             THEN [windowed EXCEPT !.path = "author", !.raised = TRUE]
             ELSE IF candidates # << >> /\ matched # << >>
             THEN [windowed EXCEPT !.path = "author", !.rows = matched]
             ELSE [windowed EXCEPT !.path = "sql_only", !.rows = fallback]
        ELSE [args EXCEPT !.path = "sql_only", !.rows = fallback]

\* the "LIMIT 1" of the reference lookup of recommend_similar
ReferenceNeighbours == 1
\* the "LIMIT 5" candidate window of recommend_by_author
AuthorCandidates == 5
\* the "LIMIT 50" broad search of both recommendation operations
BroadSearch == 50

\* the genre condition left out of the WHERE clause
GenreBookIds_All(genres) == DOMAIN books

\* SELECT id FROM books WHERE genero LIKE ? OR genero LIKE ? ...
GenreBookIds(genres) ==
    {i \in Ids : \E g \in genres : LikeContains(books[i].genero, g)}

\* the neighbours taken as they come, without the genre_set test
FilterByGenre_Unfiltered(vss_results, genre_set) == vss_results

\* the whole genre set, in id order, instead of the neighbours in it
FilterByGenre_IdOrder(vss_results, genre_set) == InIdOrder(genre_set)

\* [row for row in vss_results if row[0] in genre_set]
FilterByGenre(vss_results, genre_set) ==
    SelectSeq(vss_results, LAMBDA r : r \in genre_set)

\* the reference row left among the neighbours
ExcludeReference_Kept(rows, ref_book_id) == rows

\* [row[0] for row in ... if row[0] != ref_book_id]
ExcludeReference(rows, ref_book_id) ==
    SelectSeq(rows, LAMBDA r : r # ref_book_id)

\* BookRepository.recommend_similar(reference, model, limit, llm_model);
\* reply is what llm_model.invoke would answer
RecommendSimilar(reference, limit, llm_model, reply, order) ==
    LET ref_result == VssSearch(order, ReferenceNeighbours)
        ref_book_id == IF ref_result = << >> THEN 0 ELSE ref_result[1]
        book_genre == IF ref_book_id \in Ids THEN books[ref_book_id].genero ELSE Empty
        \* if not ref_genre and llm_model
        infer == book_genre = Empty /\ llm_model
        ref_genre == IF infer THEN Strip(reply) ELSE book_genre
        genres == Range(GenreTokens(ref_genre))
        genre_book_ids == GenreBookIds(genres)
        widened == ExcludeReference(VssSearch(order, limit), ref_book_id)
        filtered == FilterByGenre(VssSearch(order, BroadSearch), genre_book_ids)
        book_ids == IF ref_book_id # 0
                    THEN Take(ExcludeReference(filtered, ref_book_id), limit)
                    ELSE Take(filtered, limit)
        args == [NoCall EXCEPT !.op = "recommend_similar", !.text = reference,
                               !.limit = limit, !.model = TRUE, !.llm_model = llm_model,
                               !.reply = reply, !.order = order,
                               !.encoded = TRUE,
                               !.connections = 1, !.closed = 1,
                               !.ref_book_id = ref_book_id, !.llm_invoked = infer,
                               !.ref_genre = ref_genre]
        searched == [args EXCEPT !.genres = genres, !.genre_book_ids = genre_book_ids]
    IN  IF ref_genre = Empty
        THEN [args EXCEPT !.path = "no_genre"]
        ELSE IF Cardinality(genre_book_ids) < 2 /\ ref_book_id # 0
        THEN [searched EXCEPT !.path = "widened", !.rows = BooksWithIdIn(widened)]
        ELSE IF Cardinality(genre_book_ids) < 1
        THEN [searched EXCEPT !.path = "no_books"]
        ELSE [searched EXCEPT !.path = "genre", !.rows = BooksWithIdIn(book_ids)]

\* the query without "AND autor != ?"
OtherAuthors_NotExcluded(genres, actual_author) == GenreBookIds(genres)

\* SELECT id FROM books WHERE (genero LIKE ? OR ...) AND autor != ?
\* (the second condition only "if actual_author")
OtherAuthorsGenreBookIds(genres, actual_author) ==
    {i \in GenreBookIds(genres) : actual_author # Empty => books[i].autor # actual_author}

\* BookRepository.recommend_by_author(author_query, model, limit, llm_model)
RecommendByAuthor(author_query, limit, llm_model, reply, order) ==
    LET candidates == VssSearch(order, AuthorCandidates)
        words == SplitWords(author_query)
        \* SELECT DISTINCT autor, genero ... WHERE id IN (...) AND autor LIKE ?
        author_rows == IF candidates = << >> THEN << >>
                       ELSE InIdOrder({i \in Ids \cap Range(candidates) :
                                          LikeContains(books[i].autor, words[1])})
        actual_author == IF author_rows = << >> THEN Empty
                         ELSE books[author_rows[1]].autor
        db_genres == {books[i].genero : i \in Range(author_rows)}
        \* if not genres and llm_model
        infer == db_genres = {} /\ llm_model
        genres == IF infer THEN Range(GenreTokens(Strip(reply))) ELSE db_genres
        genre_book_ids == OtherAuthorsGenreBookIds(genres, actual_author)
        filtered == FilterByGenre(VssSearch(order, BroadSearch), genre_book_ids)
        book_ids == Take(filtered, limit)
        args == [NoCall EXCEPT !.op = "recommend_by_author", !.text = author_query,
                               !.limit = limit, !.model = TRUE, !.llm_model = llm_model,
                               !.reply = reply, !.order = order,
                               !.encoded = TRUE,
                             !.connections = 1, !.closed = 1]
        looked == [args EXCEPT !.actual_author = actual_author, !.llm_invoked = infer,
                               !.genres = genres]
    IN  IF candidates # << >> /\ words = << >>
        \* author_query.split()[0]: IndexError
        THEN [args EXCEPT !.path = "candidates", !.raised = TRUE]
        ELSE IF genres = {}
        THEN [looked EXCEPT !.path = "no_genre"]
        ELSE IF Cardinality(genre_book_ids) < 1
        THEN [looked EXCEPT !.path = "no_books", !.genre_book_ids = genre_book_ids]
        ELSE [looked EXCEPT !.path = "genre", !.genre_book_ids = genre_book_ids,
                            !.rows = BooksWithIdIn(book_ids)]

-----------------------------------------------------------------------------
(* The agent tools *)

\* limit=3 of the three list tools
ToolLimit == 3
\* limit=1 of search_book_by_title
TitleToolLimit == 1

\* search_book_by_title(title)
ToolSearchBookByTitle(title, order) ==
    [SearchByTitle(title, TitleToolLimit, order) EXCEPT !.via = "tool"]

\* search_books_by_criteria(author, genre, query):
\* model = get_model() if (query or author) else None
ToolSearchBooksByCriteria(author, genre, query, order) ==
    [SearchByCriteria(author, genre, query, query # Empty \/ author # Empty,
                      ToolLimit, order) EXCEPT !.via = "tool"]

\* recommend_similar_books(reference)
ToolRecommendSimilarBooks(reference, reply, order) ==
    [RecommendSimilar(reference, ToolLimit, TRUE, reply, order) EXCEPT !.via = "tool"]

\* recommend_by_author(author_name)
ToolRecommendByAuthor(author_name, reply, order) ==
    [RecommendByAuthor(author_name, ToolLimit, TRUE, reply, order) EXCEPT !.via = "tool"]

-----------------------------------------------------------------------------
(* Inputs *)

TitleQueries == {<<"a">>, <<"n~">>, <<"d">>, Empty}

References == {<<"a", "b">>, <<"d">>}

AuthorQueries == {<<"a", " ", "b">>, <<"c">>, <<"d">>, <<" ">>}

GenreFilters == {Empty, <<"g">>}

FreeQueries == {Empty, <<"d">>}

\* answers of the genre-inference model
Replies == {Empty, <<" ">>, <<"k">>, <<"g", ",", " ", "h">>, <<"_">>}

\* llm_model (None or a client) and what the client would answer
Inference == {<<FALSE, Empty>>} \cup {<<TRUE, r>> : r \in Replies}

Limits == 0..MaxLimit


-----------------------------------------------------------------------------
(* The models of the tool modules *)

\* the four modules of backend/agents/tools that define a tool; each has its
\* own module-level global _model and its own get_model()
ToolModules == {"search_book", "search_criteria", "recommend_similar", "recommend_author"}

\* the two of them that also have _llm_model and get_llm_model()
LlmModules == {"recommend_similar", "recommend_author"}

\* the threads that run tool functions (the workers of the tool node)
Threads == {"worker-1", "worker-2"}

IdleThread == [tool |-> "none", pc |-> "idle"]

\* the process right after the tool modules were imported: _model = None,
\* _llm_model = None, nothing constructed
ProcessStart ==
    /\ _model = [m \in ToolModules |-> "None"]
    /\ _llm_model = [m \in LlmModules |-> "None"]
    /\ thread = [t \in Threads |-> IdleThread]
    /\ constructed = [SentenceTransformer |-> 0, ChatAnthropic |-> 0]

\* where a tool function goes once it holds the embedding model:
\* llm_model = get_llm_model() in the two recommendation tools, the
\* repository call in the two search tools
AfterGetModel(m) == IF m \in LlmModules THEN "get_llm_model" ELSE "repository"

\* a thread enters a tool function. search_books_by_criteria asks for the
\* model only "if (query or author)"; the other three always do.
ToolCalled(t, m, query_or_author) ==
    /\ thread[t].pc = "idle"
    /\ m # "search_criteria" => query_or_author
    /\ thread' = [thread EXCEPT ![t] =
                    [tool |-> m,
                     pc |-> IF query_or_author THEN "get_model" ELSE "repository"]]
    /\ UNCHANGED <<_model, _llm_model, constructed>>
    /\ UNCHANGED <<catalog, retrieval, importer, workflow, server>>

\* get_model(): "if _model is None:" - the test, with no lock around it
GetModelTest(t) ==
    LET m == thread[t].tool
    IN  /\ thread[t].pc = "get_model"
        /\ thread' = [thread EXCEPT ![t].pc =
                        IF _model[m] = "None" THEN "load_model" ELSE AfterGetModel(m)]
        /\ UNCHANGED <<_model, _llm_model, constructed>>
        /\ UNCHANGED <<catalog, retrieval, importer, workflow, server>>

\* get_model(): "_model = SentenceTransformer(...)" and "return _model"
GetModelLoad(t) ==
    LET m == thread[t].tool
    IN  /\ thread[t].pc = "load_model"
        /\ constructed' = [constructed EXCEPT !.SentenceTransformer = @ + 1]
        /\ _model' = [_model EXCEPT ![m] = "SentenceTransformer"]
        /\ thread' = [thread EXCEPT ![t].pc = AfterGetModel(m)]
        /\ UNCHANGED _llm_model
        /\ UNCHANGED <<catalog, retrieval, importer, workflow, server>>

\* get_llm_model(): "if _llm_model is None:"
GetLlmModelTest(t) ==
    LET m == thread[t].tool
    IN  /\ thread[t].pc = "get_llm_model"
        /\ thread' = [thread EXCEPT ![t].pc =
                        IF _llm_model[m] = "None" THEN "load_llm_model" ELSE "repository"]
        /\ UNCHANGED <<_model, _llm_model, constructed>>
        /\ UNCHANGED <<catalog, retrieval, importer, workflow, server>>

\* get_llm_model(): "_llm_model = ChatAnthropic(...)" and "return _llm_model"
GetLlmModelLoad(t) ==
    LET m == thread[t].tool
    IN  /\ thread[t].pc = "load_llm_model"
        /\ constructed' = [constructed EXCEPT !.ChatAnthropic = @ + 1]
        /\ _llm_model' = [_llm_model EXCEPT ![m] = "ChatAnthropic"]
        /\ thread' = [thread EXCEPT ![t].pc = "repository"]
        /\ UNCHANGED _model
        /\ UNCHANGED <<catalog, retrieval, importer, workflow, server>>

\* the "with SessionLocal() as session" block of the tool: the repository
\* call, which touches none of the globals, and the return
ToolReturns(t) ==
    /\ thread[t].pc = "repository"
    /\ thread' = [thread EXCEPT ![t] = IdleThread]
    /\ UNCHANGED <<_model, _llm_model, constructed>>
    /\ UNCHANGED <<catalog, retrieval, importer, workflow, server>>

-----------------------------------------------------------------------------
(* The catalog import *)

\* most rows of a CSV file of the model
MaxCsvRows == 3

\* a genre cell pandas read as NaN (a float, not a str)
NaN == "NaN"

\* the rows the CSV files of the model are built from: two rows with the same
\* isbn, a row out of stock, a row without genre
CsvPool ==
    { [titulo |-> <<"a", "b">>, autor |-> <<"A", " ", "b">>, genero |-> <<"g", ",", " ", "h">>,
       isbn |-> "1", existencia |-> TRUE],
      [titulo |-> <<"c">>, autor |-> <<"c">>, genero |-> <<"k">>,
       isbn |-> "1", existencia |-> TRUE],
      [titulo |-> <<"c">>, autor |-> <<"c">>, genero |-> <<"k">>,
       isbn |-> "2", existencia |-> TRUE],
      [titulo |-> <<"a">>, autor |-> <<"a", " ", "c">>, genero |-> <<"G">>,
       isbn |-> "3", existencia |-> FALSE],
      [titulo |-> <<"N~">>, autor |-> <<"b", ",", " ", "a">>, genero |-> NaN,
       isbn |-> "4", existencia |-> TRUE] }

\* df[df['existencia'] == True]
InStock(file) == SelectSeq(file, LAMBDA r : r.existencia)

\* the columns of a CSV row that table books of the model keeps
BookOf(row) == [titulo |-> row.titulo, autor |-> row.autor, genero |-> row.genero]

\* what can fail while one row is handled: model.encode, the INSERT into
\* books, the INSERT into vss_books
RowFaults == {"none", "encode", "insert_book", "insert_embedding"}

\* import_books before it ran: no locals yet; isbn is the isbn column of the
\* rows of table books, vss_rows the rowids of the records of vss_books (one
\* entry per record)
ImporterAt(stored) ==
    [ pc |-> "idle", df |-> << >>, idx |-> 0, lastrowid |-> 0,
      imported |-> 0, skipped |-> 0,
      isbn |-> [i \in 1..stored |-> "0"],
      vss_rows |-> [i \in 1..stored |-> i] ]

\* the records of vss_books whose rowid is i
RecordsOf(i) == {k \in DOMAIN importer.vss_rows : importer.vss_rows[k] = i}

\* import_books up to the loop: read (pd.read_csv) and filter the CSV, open the cursor
\* (lastrowid 0), clear_existing_books (DELETE FROM vss_books, DELETE FROM
\* books) and commit. Row ids are written relative to the deleted rows.
ImportStart ==
    /\ importer.pc = "idle"
    /\ \E file \in SeqsUpTo(CsvPool, MaxCsvRows) :
          importer' = [importer EXCEPT !.pc = "rows", !.df = InStock(file), !.idx = 1,
                                       !.lastrowid = 0, !.isbn = << >>, !.vss_rows = << >>]
    /\ books' = << >>
    /\ vss_books' = {}
    /\ UNCHANGED <<retrieval, process, workflow, server>>

\* one turn of "for idx, row in df.iterrows()": the try block and its except.
\* fault is what fails in this turn; accepts says whether the index takes a
\* second record for a rowid it already holds (otherwise that INSERT raises).
ImportRow ==
    /\ importer.pc = "rows"
    /\ importer.idx <= Len(importer.df)
    /\ \E fault \in RowFaults, accepts \in BOOLEAN :
          LET row == importer.df[importer.idx]
              step == [importer EXCEPT !.idx = @ + 1]
              skip(imp) == [imp EXCEPT !.skipped = @ + 1]
              \* assign_section(genero): genre.lower() of a float; model.encode
              early == row.genero = NaN \/ fault = "encode"
              \* INSERT OR IGNORE INTO books: the UNIQUE isbn decides
              fresh == \A i \in DOMAIN importer.isbn : importer.isbn[i] # row.isbn
              inserted == IF fresh
                          THEN [step EXCEPT !.isbn = Append(@, row.isbn),
                                            !.lastrowid = Len(books) + 1]
                          ELSE step
              book_id == inserted.lastrowid
              \* INSERT INTO vss_books(rowid, embedding) VALUES (book_id, ...)
              refused == fault = "insert_embedding" \/ (RecordsOf(book_id) # {} /\ ~accepts)
          IN  IF early \/ fault = "insert_book"
              THEN /\ importer' = skip(step)
                   /\ UNCHANGED catalog
              ELSE /\ books' = IF fresh THEN Append(books, BookOf(row)) ELSE books
                   /\ IF book_id > 0 /\ ~refused
                      THEN /\ importer' = [inserted EXCEPT !.vss_rows = Append(@, book_id),
                                                           !.imported = @ + 1]
                           /\ vss_books' = vss_books \cup {book_id}
                      ELSE /\ importer' = skip(inserted)
                           /\ UNCHANGED vss_books
    /\ UNCHANGED <<retrieval, process, workflow, server>>

\* after the loop: conn.commit(), conn.close()
ImportFinish ==
    /\ importer.pc = "rows"
    /\ importer.idx > Len(importer.df)
    /\ importer' = [importer EXCEPT !.pc = "done"]
    /\ UNCHANGED <<catalog, retrieval, process, workflow, server>>

-----------------------------------------------------------------------------
(* The conversation table *)

\* the 3 of repo.get_recent(minutes=3) in the start node
HistoryMinutes == 3

\* ConversationRepository.save_message(message, role): a row stamped with the
\* clock (Conversation.timestamp defaults to datetime.utcnow)
SaveMessage(table, message, role) ==
    Append(table, [message |-> message, role |-> role, timestamp |-> now])

\* ConversationRepository.get_recent(minutes): every row not older than the
\* cutoff, whoever wrote it, oldest first
GetRecent(minutes) ==
    SelectSeq(conversations, LAMBDA r : r.timestamp >= now - minutes)

\* DatabaseManager.save_conversation(user_message, agent_response)
SaveConversation(user_message, agent_response) ==
    SaveMessage(SaveMessage(conversations, user_message, "human"), agent_response, "agent")

\* the texts of a sequence of texts, one after another
RECURSIVE Join(_)
Join(texts) ==
    IF texts = << >> THEN << >> ELSE Head(texts) \o Join(Tail(texts))

\* conversation_history of the start node: a heading and one line per loaded
\* row (its role in capitals, its message), or the text for "nothing recent"
ConversationHistory(recent_messages) ==
    IF recent_messages = << >>
    THEN <<"No recent conversation history.">>
    ELSE <<"RECENT CONVERSATION HISTORY:", "\n">> \o
         Join([i \in DOMAIN recent_messages |->
                 <<IF recent_messages[i].role = "human" THEN "HUMAN" ELSE "AGENT", ":", " ">>
                 \o recent_messages[i].message \o <<"\n">>])

-----------------------------------------------------------------------------
(* The agent workflow *)

\* largest catalog the workflow runs against
MaxAgentBooks == 1

\* the rows of those catalogs; one title spells "None"
AgentPool ==
    { [titulo |-> <<"a">>,                autor |-> <<"c">>, genero |-> <<"k">>],
      [titulo |-> <<"N", "o", "n", "e">>, autor |-> <<"b">>, genero |-> <<"g">>] }

\* what the user says
UserInputs == {<<"a">>, <<"A", "u", "t", "o", "r", " ", "c">>}

\* str.lower() on the alphabet of the model
Lower(c) ==
    CASE c = "A" -> "a"
      [] c = "B" -> "b"
      [] c = "G" -> "g"
      [] c = "N" -> "n"
      [] c = "N~" -> "n~"
      [] OTHER -> c

\* Python's "w in s" on strings
Within(w, s) ==
    \E i \in 1..(Len(s) - Len(w) + 1) : SubSeq(s, i, i + Len(w) - 1) = w

\* ["autor", "autora", "escribió", "escribe"]
AuthorWords ==
    { <<"a", "u", "t", "o", "r">>,
      <<"a", "u", "t", "o", "r", "a">>,
      <<"e", "s", "c", "r", "i", "b", "i", "o'">>,
      <<"e", "s", "c", "r", "i", "b", "e">> }

\* any(word in user_query.lower() for word in [...])
AboutAuthor(user_query) ==
    LET lowered == [i \in DOMAIN user_query |-> Lower(user_query[i])]
    IN  \E word \in AuthorWords : Within(word, lowered)

\* a tool call of a model response: the tool's name and its arguments
ToolCall(name, text, author) == [name |-> name, text |-> text, author |-> author]

\* the tool calls the chat model may emit
ToolCalls ==
    { ToolCall("search_book_by_title", <<"a">>, Empty),
      ToolCall("search_books_by_criteria", Empty, <<"c">>),
      ToolCall("recommend_similar_books", <<"d">>, Empty),
      ToolCall("recommend_by_author", <<" ">>, Empty) }

\* response.tool_calls of a model response: none, one, or these two at once
ToolCallLists ==
    {<< >>} \cup {<<tc>> : tc \in ToolCalls}
            \cup {<<ToolCall("search_book_by_title", <<"a">>, Empty),
                    ToolCall("search_books_by_criteria", Empty, <<"c">>)>>}

\* answers of the genre-inference model during a tool call of the workflow
AgentReplies == {Empty, <<"k">>}

\* the final texts the chat model may give
FinalTexts == {<<"a">>}

\* what the chat model says in plan_and_search when it calls no tool
PlanTexts == {<<"p">>}

\* AIMessage(content="No encontré información sobre ese libro.")
NoInformation == <<"No encontre' informacion sobre ese libro.">>

\* a message of state["messages"]; prompt names the prompt a model response
\* answers
Message(type, content, tool_calls, prompt) ==
    [type |-> type, content |-> content, tool_calls |-> tool_calls, prompt |-> prompt]

\* how the tool node writes a tool's return value into ToolMessage.content:
\* json.dumps(value) or str(value), depending on the library version
Styles == {"json", "str"}

\* a Book dictionary as text
DictText(b) == <<"{">> \o b.titulo \o <<",">> \o b.autor \o <<",">> \o b.genero \o <<"}">>

\* the return value of tool call c as text; an exception of the tool becomes
\* an error text
ToolContent(c, style) ==
    IF c.raised THEN <<"E", "r", "r", "o", "r">>
    ELSE IF c.op = "search_by_title"
    THEN IF c.rows = << >>
         THEN IF style = "json" THEN <<"n", "u", "l", "l">> ELSE <<"N", "o", "n", "e">>
         ELSE DictText(books[c.rows[1]])
    ELSE <<"[">> \o Join([i \in DOMAIN c.rows |-> DictText(books[c.rows[i]])]) \o <<"]">>

\* the tool function a tool call names, run with the neighbour order and the
\* inference reply of this run
RunTool(tc, reply, order) ==
    CASE tc.name = "search_book_by_title" -> ToolSearchBookByTitle(tc.text, order)
      [] tc.name = "search_books_by_criteria" ->
            ToolSearchBooksByCriteria(tc.author, Empty, tc.text, order)
      [] tc.name = "recommend_similar_books" -> ToolRecommendSimilarBooks(tc.text, reply, order)
      [] tc.name = "recommend_by_author" -> ToolRecommendByAuthor(tc.text, reply, order)

\* [msg for msg in state["messages"] if ... msg.type == 'tool']
ToolMessages(msgs) == SelectSeq(msgs, LAMBDA m : m.type = "tool")

\* "None" in result_content or not result_content or result_content == "[]"
NothingFound(result_content) ==
    \/ Within(<<"N", "o", "n", "e">>, result_content)
    \/ result_content = Empty
    \/ result_content = <<"[", "]">>

\* a route that leaves check_results out when the model called no tool
RouteAfterPlan_SkippingCheck(msgs) ==
    IF msgs[Len(msgs)].tool_calls # << >> THEN "execute_search" ELSE "format"

\* _route_after_plan
RouteAfterPlan(msgs) ==
    IF msgs[Len(msgs)].tool_calls # << >> THEN "execute_search" ELSE "check_results"

\* a route that looks at every message instead of the last one
RouteAfterCheck_AnyMessage(msgs) ==
    IF \E i \in DOMAIN msgs : msgs[i].tool_calls # << >>
    THEN "execute_recommend" ELSE "format"

\* _route_after_check
RouteAfterCheck(msgs) ==
    IF msgs[Len(msgs)].tool_calls # << >> THEN "execute_recommend" ELSE "format"

\* no invocation of the workflow yet
WorkflowIdle ==
    /\ node = "idle"
    /\ messages = << >>
    /\ input_user = Empty
    /\ trace = << >>
    /\ invocations = 0

\* process_message: self.workflow.ainvoke({"input_user": message}), up to
\* the entry point
Invoke ==
    /\ node = "idle"
    /\ \E message \in UserInputs : input_user' = message
    /\ node' = "start"
    /\ UNCHANGED <<messages, trace, invocations>>
    /\ UNCHANGED <<catalog, retrieval, process, importer, server>>

\* _start_node, then the edge start -> plan_and_search
StartNode ==
    /\ node = "start"
    /\ LET recent_messages == GetRecent(HistoryMinutes)
           system_message == Message("system", ConversationHistory(recent_messages), << >>, "none")
           user_message == Message("human", input_user, << >>, "none")
       IN  messages' = messages \o <<system_message, user_message>>
    /\ trace' = Append(trace, "start")
    /\ node' = "plan_and_search"
    /\ UNCHANGED <<input_user, invocations>>
    /\ UNCHANGED <<catalog, retrieval, process, importer, server>>

\* _plan_and_search_node, then _route_after_plan
PlanAndSearchNode ==
    /\ node = "plan_and_search"
    /\ \E tool_calls \in ToolCallLists, text \in PlanTexts :
          LET response == Message("ai", IF tool_calls = << >> THEN text ELSE Empty,
                                  tool_calls, "plan")
          IN  /\ messages' = Append(messages, response)
              /\ node' = RouteAfterPlan(messages')
    /\ trace' = Append(trace, "plan_and_search")
    /\ invocations' = invocations + 1
    /\ UNCHANGED input_user
    /\ UNCHANGED <<catalog, retrieval, process, importer, server>>

\* self.tool_node: every tool call of the last model response is run and
\* answered by one tool message. When a tool raises, the tool node answers
\* with an error text or lets the exception end the invocation, depending on
\* the library version.
ToolNode(stage, then) ==
    /\ node = stage
    /\ LET tool_calls == messages[Len(messages)].tool_calls
       IN  \E orders \in [DOMAIN tool_calls -> NeighbourOrders(vss_books)],
              reply \in AgentReplies, style \in Styles :
              LET ran == [i \in DOMAIN tool_calls |->
                            RunTool(tool_calls[i], reply, orders[i])]
                  answers == [i \in DOMAIN tool_calls |->
                                Message("tool", ToolContent(ran[i], style), << >>, "none")]
              IN  \/ /\ messages' = messages \o answers
                     /\ node' = then
                  \/ /\ \E i \in DOMAIN ran : ran[i].raised
                     /\ messages' = messages
                     /\ node' = "raised"
    /\ trace' = Append(trace, stage)
    /\ UNCHANGED <<input_user, invocations>>
    /\ UNCHANGED <<catalog, retrieval, process, importer, server>>

\* node execute_search, then the edge execute_search -> check_results
ExecuteSearch == ToolNode("execute_search", "check_results")

\* node execute_recommend, then the edge execute_recommend -> format
ExecuteRecommend == ToolNode("execute_recommend", "format")

\* _check_and_recommend_node, then _route_after_check
CheckResultsNode ==
    /\ node = "check_results"
    /\ LET tool_messages == ToolMessages(messages)
           last_tool_result == tool_messages[Len(tool_messages)]
           prompt == IF AboutAuthor(input_user)
                     THEN "recommend_by_author" ELSE "recommend_similar_books"
       IN  IF tool_messages # << >> /\ NothingFound(last_tool_result.content)
           THEN /\ \E tool_calls \in ToolCallLists :
                      messages' = Append(messages, Message("ai", Empty, tool_calls, prompt))
                /\ invocations' = invocations + 1
           ELSE /\ messages' = messages
                /\ invocations' = invocations
    /\ node' = RouteAfterCheck(messages')
    /\ trace' = Append(trace, "check_results")
    /\ UNCHANGED input_user
    /\ UNCHANGED <<catalog, retrieval, process, importer, server>>

\* a format stage that adds nothing when there is no tool result
FormatNode_Passing ==
    /\ node = "format"
    /\ IF ToolMessages(messages) = << >>
       THEN /\ messages' = messages
            /\ invocations' = invocations
       ELSE /\ \E content \in FinalTexts :
                  messages' = Append(messages, Message("ai", content, << >>, "humanize"))
            /\ invocations' = invocations + 1
    /\ node' = "END"
    /\ trace' = Append(trace, "format")
    /\ UNCHANGED input_user
    /\ UNCHANGED <<catalog, retrieval, process, importer, server>>

\* _format_voice_node, then the edge format -> END
FormatNode ==
    /\ node = "format"
    /\ IF ToolMessages(messages) = << >>
       THEN /\ messages' = Append(messages, Message("ai", NoInformation, << >>, "none"))
            /\ invocations' = invocations
       ELSE /\ \E content \in FinalTexts :
                  messages' = Append(messages, Message("ai", content, << >>, "humanize"))
            /\ invocations' = invocations + 1
    /\ node' = "END"
    /\ trace' = Append(trace, "format")
    /\ UNCHANGED input_user
    /\ UNCHANGED <<catalog, retrieval, process, importer, server>>

-----------------------------------------------------------------------------
(* The websocket handler *)

\* most frames the clients send, all connections together
MaxFrames == 2
\* how often the clients pause
MaxPauses == 1
\* most failures (of the agent, of persistence, of a downstream service)
MaxFaults == 1

\* the client connections; each has its own WebSocketHandler
Connections == {"c1", "c2"}

\* what a frame can be: the heartbeat, text that is no JSON, a JSON object
\* without "id", a JSON number, a JSON object with "message" and "id"
FrameKinds == {"alive", "invalid_json", "incomplete", "scalar", "turn"}

\* the frames a client sends, numbered as it sends them (the number is the
\* "id" of a turn)
FrameSeqs == UNION {[1..n -> FrameKinds] : n \in 0..MaxFrames}

\* the frames of the second client: nothing but turns
TurnSeqs == UNION {[1..n -> {"turn"}] : n \in 0..MaxFrames}

\* the user text of the turns of a connection
UserText(c) == <<c>>

\* what agent.process_message may return
AgentResponses == {<<"r">>, <<"[", "x", "]", " ", "r">>}

\* re.sub(r'\[.*?\]', '', s): every run from a "[" to the next "]" is dropped
RECURSIVE RemoveBracketed(_)
RemoveBracketed(s) ==
    IF s = << >> THEN << >>
    ELSE IF Head(s) = "[" /\ \E i \in 2..Len(s) : s[i] = "]"
    THEN LET close == CHOOSE i \in 2..Len(s) : s[i] = "]" /\ \A j \in 2..(i - 1) : s[j] # "]"
         IN  RemoveBracketed(SubSeq(s, close + 1, Len(s)))
    ELSE <<Head(s)>> \o RemoveBracketed(Tail(s))

\* the three re.sub(...).strip() of main; the two patterns about "Sonrio" and
\* "respondo" match nothing in the alphabet of the model
CleanResponse(agent_response) == Strip(RemoveBracketed(agent_response))

\* the envelopes the handler sends; `after` is the number of frames the
\* handler had read when the envelope went out
AliveEnvelope == [type |-> "alive", message_id |-> 0, error |-> "none", after |-> 0]
ErrorEnvelope(error) == [type |-> "error", message_id |-> 0, error |-> error, after |-> 0]
BranchEnvelope(type, message_id) ==
    [type |-> type, message_id |-> message_id, error |-> "none", after |-> 0]

\* what can fail in a branch of the gather: nothing, persistence (before the
\* rows are written), a downstream service (speech, visemes, expressions,
\* animations)
BranchFaults == {"none", "persistence", "service"}

\* a handler between two frames
Receiving == [pc |-> "receive", message |-> Empty, id |-> 0, error |-> "none"]

\* the server with its clients connected and nothing read yet
ServerAt(frames) ==
    /\ websocket = [c \in Connections |->
                      [open |-> TRUE, inbound |-> frames[c], read |-> 0, sent |-> {}]]
    /\ faults = 0
    /\ handler = [c \in Connections |-> Receiving]
    /\ tasks = [c \in Connections |-> {}]
    /\ history = [c \in Connections |-> << >>]

\* websocket.send(envelope) on socket state ws
SendOn(ws, c, envelope) ==
    [ws EXCEPT ![c].sent = @ \cup {[envelope EXCEPT !.after = ws[c].read]}]

\* "async for message in self.websocket" delivers a frame, and the handler
\* routes it: the heartbeat, the two error envelopes of the inner try, the
\* TypeError of '"message" in msg_data' on a number, or main()
Receive(c) ==
    /\ handler[c].pc = "receive"
    /\ websocket[c].open
    /\ websocket[c].inbound # << >>
    /\ LET kind == Head(websocket[c].inbound)
           id == websocket[c].read + 1
           taken == [websocket EXCEPT ![c].inbound = Tail(@), ![c].read = id]
       IN  CASE kind = "alive" ->
                  /\ websocket' = SendOn(taken, c, AliveEnvelope)
                  /\ UNCHANGED handler
             [] kind = "invalid_json" ->
                  /\ websocket' = SendOn(taken, c, ErrorEnvelope("JSON invalido"))
                  /\ UNCHANGED handler
             [] kind = "incomplete" ->
                  /\ websocket' = SendOn(taken, c, ErrorEnvelope("Formato de mensaje invalido"))
                  /\ UNCHANGED handler
             [] kind = "scalar" ->
                  /\ websocket' = taken
                  /\ handler' = [handler EXCEPT ![c].pc = "except", ![c].error = "TypeError"]
             [] kind = "turn" ->
                  /\ websocket' = taken
                  /\ handler' = [handler EXCEPT ![c] = [pc |-> "agent", message |-> UserText(c),
                                                        id |-> id, error |-> "none"]]
    /\ UNCHANGED <<tasks, conversations, now, history, faults>>
    /\ UNCHANGED <<catalog, retrieval, process, importer, workflow>>

\* main(): agent.process_message returns. Its start node has loaded the
\* recent rows of the conversation table; the response is cleaned and the
\* three branches of asyncio.gather are started.
AgentAnswers(c) ==
    /\ handler[c].pc = "agent"
    /\ history' = [history EXCEPT ![c] = GetRecent(HistoryMinutes)]
    /\ \E agent_response \in AgentResponses :
          tasks' = [tasks EXCEPT ![c] = @ \cup
                      {[branch |-> b, id |-> handler[c].id, message |-> handler[c].message,
                        response |-> CleanResponse(agent_response)] : b \in {1, 2, 3}}]
    /\ handler' = [handler EXCEPT ![c].pc = "gather"]
    /\ UNCHANGED <<websocket, conversations, now, faults>>
    /\ UNCHANGED <<catalog, retrieval, process, importer, workflow>>

\* main(): agent.process_message raises, in a model or tool call after its
\* start node ran
AgentRaises(c) ==
    /\ handler[c].pc = "agent"
    /\ faults < MaxFaults
    /\ faults' = faults + 1
    /\ history' = [history EXCEPT ![c] = GetRecent(HistoryMinutes)]
    /\ handler' = [handler EXCEPT ![c].pc = "except", ![c].error = "agent"]
    /\ UNCHANGED <<websocket, tasks, conversations, now>>
    /\ UNCHANGED <<catalog, retrieval, process, importer, workflow>>

\* the gather of the turn the handler is in still waits for this task
Awaited(c, task) == handler[c].pc = "gather" /\ handler[c].id = task.id

\* an exception of a branch: asyncio.gather hands the first one to main(),
\* which lets it through to the except clause of the handler; the other
\* branches go on running. A later exception of the same gather is dropped.
Raised(c, task, error) ==
    IF Awaited(c, task)
    THEN [handler EXCEPT ![c].pc = "except", ![c].error = error]
    ELSE handler

\* _parallel1: save_conversation, speech, visemes, send (which raises on a
\* connection the client has closed)
Parallel1(c) ==
    /\ \E task \in tasks[c], fault \in BranchFaults :
          /\ task.branch = 1
          /\ fault # "none" => faults < MaxFaults
          /\ faults' = IF fault # "none" THEN faults + 1 ELSE faults
          /\ tasks' = [tasks EXCEPT ![c] = @ \ {task}]
          /\ conversations' = IF fault = "persistence" THEN conversations
                              ELSE SaveConversation(task.message, task.response)
          /\ IF fault = "none" /\ websocket[c].open
             THEN /\ websocket' = SendOn(websocket, c, BranchEnvelope("audio", task.id))
                  /\ UNCHANGED handler
             ELSE /\ handler' = Raised(c, task, fault)
                  /\ UNCHANGED websocket
    /\ UNCHANGED <<now, history>>
    /\ UNCHANGED <<catalog, retrieval, process, importer, workflow>>

\* _parallel2 (type "expressions") and _parallel3 (type "animations"):
\* ask the service, send
ServiceBranch(c, branch, type) ==
    /\ \E task \in tasks[c], fault \in BranchFaults \ {"persistence"} :
          /\ task.branch = branch
          /\ fault # "none" => faults < MaxFaults
          /\ faults' = IF fault # "none" THEN faults + 1 ELSE faults
          /\ tasks' = [tasks EXCEPT ![c] = @ \ {task}]
          /\ IF fault = "none" /\ websocket[c].open
             THEN /\ websocket' = SendOn(websocket, c, BranchEnvelope(type, task.id))
                  /\ UNCHANGED handler
             ELSE /\ handler' = Raised(c, task, fault)
                  /\ UNCHANGED websocket
    /\ UNCHANGED <<conversations, now, history>>
    /\ UNCHANGED <<catalog, retrieval, process, importer, workflow>>

Parallel2(c) == ServiceBranch(c, 2, "expressions")

Parallel3(c) == ServiceBranch(c, 3, "animations")

\* asyncio.gather returns: the three branches of the turn are done, main()
\* returns, the handler waits for the next frame
GatherReturns(c) ==
    /\ handler[c].pc = "gather"
    /\ \A task \in tasks[c] : task.id # handler[c].id
    /\ handler' = [handler EXCEPT ![c] = Receiving]
    /\ UNCHANGED <<websocket, tasks, conversations, now, history, faults>>
    /\ UNCHANGED <<catalog, retrieval, process, importer, workflow>>

\* an except clause that answers and then gives the connection up
HandleException_Closing(c) ==
    /\ handler[c].pc = "except"
    /\ websocket' = [SendOn(websocket, c, ErrorEnvelope(handler[c].error)) EXCEPT ![c].open = FALSE]
    /\ handler' = [handler EXCEPT ![c].pc = "closed"]
    /\ UNCHANGED <<tasks, conversations, now, history, faults>>
    /\ UNCHANGED <<catalog, retrieval, process, importer, workflow>>

\* "except Exception as e": the error envelope, then the next turn of the loop
HandleException(c) ==
    /\ handler[c].pc = "except"
    /\ websocket' = SendOn(websocket, c, ErrorEnvelope(handler[c].error))
    /\ handler' = [handler EXCEPT ![c] = Receiving]
    /\ UNCHANGED <<tasks, conversations, now, history, faults>>
    /\ UNCHANGED <<catalog, retrieval, process, importer, workflow>>

\* the client has sent its frames and closes; "async for" ends and the
\* handler returns
ClientCloses(c) ==
    /\ handler[c].pc = "receive"
    /\ websocket[c].open
    /\ websocket[c].inbound = << >>
    /\ websocket' = [websocket EXCEPT ![c].open = FALSE]
    /\ handler' = [handler EXCEPT ![c].pc = "closed"]
    /\ UNCHANGED <<tasks, conversations, now, history, faults>>
    /\ UNCHANGED <<catalog, retrieval, process, importer, workflow>>

\* the clients pause for longer than the history window
Pause ==
    /\ now < MaxPauses * (HistoryMinutes + 1)
    /\ now' = now + HistoryMinutes + 1
    /\ UNCHANGED <<websocket, handler, tasks, conversations, history, faults>>
    /\ UNCHANGED <<catalog, retrieval, process, importer, workflow>>
-----------------------------------------------------------------------------
(* Specification *)

\* no repository call yet
RetrievalIdle == call = NoCall /\ prev = NoCall

\* import_books not running; the catalog holds Len(books) paired rows
ImporterIdle == importer = ImporterAt(Len(books))

\* no client has sent anything; the conversation table is empty
ServerIdle ==
    /\ ServerAt([c \in Connections |-> << >>])
    /\ conversations = << >>
    /\ now = 0

Init ==
    /\ books \in SeqsUpTo(BookPool, MaxBooks)
    /\ vss_books = DOMAIN books
    /\ RetrievalIdle
    /\ ProcessStart
    /\ ImporterIdle
    /\ WorkflowIdle
    /\ ServerIdle

Idle == call.op = "none"

\* a search that empties both tables on its way
CallSearchByTitle_Deleting ==
    /\ Idle
    /\ \E query \in TitleQueries, limit \in Limits, order \in NeighbourOrders(vss_books) :
          call' = SearchByTitle(query, limit, order)
    /\ books' = << >>
    /\ vss_books' = {}
    /\ UNCHANGED <<prev, process, importer, workflow, server>>

CallSearchByTitle ==
    /\ Idle
    /\ \E query \in TitleQueries, limit \in Limits, order \in NeighbourOrders(vss_books) :
          call' = SearchByTitle(query, limit, order)
    /\ UNCHANGED <<catalog, prev, process, importer, workflow, server>>

CallSearchByCriteria ==
    /\ Idle
    /\ \E author \in AuthorQueries \cup {Empty}, genre \in GenreFilters,
          query \in FreeQueries, model \in BOOLEAN, limit \in Limits,
          order \in NeighbourOrders(vss_books) :
          call' = SearchByCriteria(author, genre, query, model, limit, order)
    /\ UNCHANGED <<catalog, prev, process, importer, workflow, server>>

CallRecommendSimilar ==
    /\ Idle
    /\ \E reference \in References, limit \in Limits, inf \in Inference,
          order \in NeighbourOrders(vss_books) :
          call' = RecommendSimilar(reference, limit, inf[1], inf[2], order)
    /\ UNCHANGED <<catalog, prev, process, importer, workflow, server>>

CallRecommendByAuthor ==
    /\ Idle
    /\ \E author_query \in AuthorQueries, limit \in Limits, inf \in Inference,
          order \in NeighbourOrders(vss_books) :
          call' = RecommendByAuthor(author_query, limit, inf[1], inf[2], order)
    /\ UNCHANGED <<catalog, prev, process, importer, workflow, server>>

CallToolSearchBookByTitle ==
    /\ Idle
    /\ \E title \in TitleQueries, order \in NeighbourOrders(vss_books) :
          call' = ToolSearchBookByTitle(title, order)
    /\ UNCHANGED <<catalog, prev, process, importer, workflow, server>>

CallToolSearchBooksByCriteria ==
    /\ Idle
    /\ \E author \in AuthorQueries \cup {Empty}, genre \in GenreFilters,
          query \in FreeQueries, order \in NeighbourOrders(vss_books) :
          call' = ToolSearchBooksByCriteria(author, genre, query, order)
    /\ UNCHANGED <<catalog, prev, process, importer, workflow, server>>

CallToolRecommendSimilarBooks ==
    /\ Idle
    /\ \E reference \in References, reply \in Replies,
          order \in NeighbourOrders(vss_books) :
          call' = ToolRecommendSimilarBooks(reference, reply, order)
    /\ UNCHANGED <<catalog, prev, process, importer, workflow, server>>

CallToolRecommendByAuthor ==
    /\ Idle
    /\ \E author_name \in AuthorQueries, reply \in Replies,
          order \in NeighbourOrders(vss_books) :
          call' = ToolRecommendByAuthor(author_name, reply, order)
    /\ UNCHANGED <<catalog, prev, process, importer, workflow, server>>

\* the caller takes the return value (or the exception); the next call can start
Return ==
    /\ ~Idle
    /\ call' = NoCall
    /\ prev' = NoCall
    /\ UNCHANGED <<catalog, process, importer, workflow, server>>

Next ==
    \/ CallSearchByTitle
    \/ CallSearchByCriteria
    \/ CallRecommendSimilar
    \/ CallRecommendByAuthor
    \/ CallToolSearchBookByTitle
    \/ CallToolSearchBooksByCriteria
    \/ CallToolRecommendSimilarBooks
    \/ CallToolRecommendByAuthor
    \/ Return

Spec == Init /\ [][Next]_vars

\* the rows of the catalogs that are larger than the author candidate window
WindowPool ==
    { [titulo |-> <<"a", "b">>, autor |-> <<"A", " ", "b">>, genero |-> <<"g", ",", " ", "h">>],
      [titulo |-> <<"c">>,      autor |-> <<"c">>,           genero |-> <<"h">>] }

\* catalogs of one row more than recommend_by_author's candidate window
InitWindow ==
    /\ books \in [1..(AuthorCandidates + 1) -> WindowPool]
    /\ vss_books = DOMAIN books
    /\ RetrievalIdle
    /\ ProcessStart
    /\ ImporterIdle
    /\ WorkflowIdle
    /\ ServerIdle

SpecWindow == InitWindow /\ [][Next]_vars


\* the positions, in catalogs of one row more than the broad search returns,
\* of the Books of genre "g, h" (the other rows are of genre "k")
BroadShelves ==
    { {1, BroadSearch + 1}, {1, 2, 3, BroadSearch + 1},
      {1, BroadSearch, BroadSearch + 1} }

\* catalogs of one row more than the "LIMIT 50" of the broad search
InitBroad ==
    /\ \E shelf \in BroadShelves :
          books = [i \in 1..(BroadSearch + 1) |->
                      IF i \in shelf
                      THEN [titulo |-> <<"a", "b">>, autor |-> <<"A", " ", "b">>,
                            genero |-> <<"g", ",", " ", "h">>]
                      ELSE [titulo |-> <<"c">>, autor |-> <<"c">>, genero |-> <<"k">>]]
    /\ vss_books = DOMAIN books
    /\ RetrievalIdle
    /\ ProcessStart
    /\ ImporterIdle
    /\ WorkflowIdle
    /\ ServerIdle

\* the operations that run the broad search
NextBroad ==
    \/ CallRecommendSimilar
    \/ CallRecommendByAuthor
    \/ CallToolRecommendSimilarBooks
    \/ CallToolRecommendByAuthor
    \/ Return

SpecBroad == InitBroad /\ [][NextBroad]_vars

-----------------------------------------------------------------------------
(* A caller that makes the same call twice *)

\* largest catalog of the repeated calls
MaxRepeatBooks == 2

\* the call c made once more: same method, same arguments, the index ranking
\* the rows for the same text as before
Again(c) ==
    LET again ==
          CASE c.op = "search_by_title" -> SearchByTitle(c.text, c.limit, c.order)
            [] c.op = "search_by_criteria" ->
                  SearchByCriteria(c.author, c.genre, c.text, c.model, c.limit, c.order)
            [] c.op = "recommend_similar" ->
                  RecommendSimilar(c.text, c.limit, c.llm_model, c.reply, c.order)
            [] c.op = "recommend_by_author" ->
                  RecommendByAuthor(c.text, c.limit, c.llm_model, c.reply, c.order)
    IN  [again EXCEPT !.via = c.via]

\* the caller keeps what the first call returned and calls again
Repeat ==
    /\ ~Idle
    /\ prev = NoCall
    /\ prev' = call
    /\ call' = Again(call)
    /\ UNCHANGED <<catalog, process, importer, workflow, server>>

InitRepeat ==
    /\ books \in SeqsUpTo(BookPool, MaxRepeatBooks)
    /\ vss_books = DOMAIN books
    /\ RetrievalIdle
    /\ ProcessStart
    /\ ImporterIdle
    /\ WorkflowIdle
    /\ ServerIdle

NextRepeat ==
    \/ CallSearchByTitle
    \/ CallSearchByCriteria
    \/ CallRecommendSimilar
    \/ CallRecommendByAuthor
    \/ CallToolSearchBookByTitle
    \/ CallToolSearchBooksByCriteria
    \/ CallToolRecommendSimilarBooks
    \/ CallToolRecommendByAuthor
    \/ Repeat
    \/ Return

SpecRepeat == InitRepeat /\ [][NextRepeat]_vars

-----------------------------------------------------------------------------
(* Tool functions running in threads of one process *)

InitLoad ==
    /\ books = << >>
    /\ vss_books = {}
    /\ RetrievalIdle
    /\ ProcessStart
    /\ ImporterIdle
    /\ WorkflowIdle
    /\ ServerIdle

NextLoad ==
    \/ \E t \in Threads, m \in ToolModules, query_or_author \in BOOLEAN :
          ToolCalled(t, m, query_or_author)
    \/ \E t \in Threads : GetModelTest(t)
    \/ \E t \in Threads : GetModelLoad(t)
    \/ \E t \in Threads : GetLlmModelTest(t)
    \/ \E t \in Threads : GetLlmModelLoad(t)
    \/ \E t \in Threads : ToolReturns(t)

SpecLoad == InitLoad /\ [][NextLoad]_vars

-----------------------------------------------------------------------------
(* A run of import_books *)

\* most rows the store holds before the import
MaxStored == 1

InitImport ==
    /\ books \in SeqsUpTo(BookPool, MaxStored)
    /\ vss_books = DOMAIN books
    /\ RetrievalIdle
    /\ ProcessStart
    /\ ImporterIdle
    /\ WorkflowIdle
    /\ ServerIdle

NextImport ==
    \/ ImportStart
    \/ ImportRow
    \/ ImportFinish

SpecImport == InitImport /\ [][NextImport]_vars

-----------------------------------------------------------------------------
(* One invocation of the agent workflow *)

\* the conversation tables the start node finds: empty, or one recent row
StoredConversations ==
    {<< >>, <<[message |-> <<"c1">>, role |-> "human", timestamp |-> 0]>>}

InitAgent ==
    /\ books \in SeqsUpTo(AgentPool, MaxAgentBooks)
    /\ vss_books = DOMAIN books
    /\ RetrievalIdle
    /\ ProcessStart
    /\ ImporterIdle
    /\ WorkflowIdle
    /\ ServerAt([c \in Connections |-> << >>])
    /\ conversations \in StoredConversations
    /\ now = 0

NextAgent ==
    \/ Invoke
    \/ StartNode
    \/ PlanAndSearchNode
    \/ ExecuteSearch
    \/ CheckResultsNode
    \/ ExecuteRecommend
    \/ FormatNode

SpecAgent == InitAgent /\ [][NextAgent]_vars

\* every model call and every tool call returns: a node that can run does run
SpecAgentLive == SpecAgent /\ WF_vars(NextAgent)

-----------------------------------------------------------------------------
(* The websocket server with its clients *)

\* the frames of all clients: at most MaxFrames together; the first client
\* sends frames of every kind, the second one turns
ClientFrames ==
    {frames \in [Connections -> FrameSeqs] :
        /\ frames["c2"] \in TurnSeqs
        /\ Len(frames["c1"]) + Len(frames["c2"]) <= MaxFrames}

InitServer ==
    /\ books = << >>
    /\ vss_books = {}
    /\ RetrievalIdle
    /\ ProcessStart
    /\ ImporterIdle
    /\ WorkflowIdle
    /\ \E frames \in ClientFrames : ServerAt(frames)
    /\ conversations = << >>
    /\ now = 0

NextServer ==
    \/ \E c \in Connections : Receive(c)
    \/ \E c \in Connections : AgentAnswers(c)
    \/ \E c \in Connections : AgentRaises(c)
    \/ \E c \in Connections : Parallel1(c)
    \/ \E c \in Connections : Parallel2(c)
    \/ \E c \in Connections : Parallel3(c)
    \/ \E c \in Connections : GatherReturns(c)
    \/ \E c \in Connections : HandleException(c)
    \/ \E c \in Connections : ClientCloses(c)
    \/ Pause

SpecServer == InitServer /\ [][NextServer]_vars


\* one client on connection c1, the other connection unused, the clock
\* standing still
InitHandler ==
    /\ books = << >>
    /\ vss_books = {}
    /\ RetrievalIdle
    /\ ProcessStart
    /\ ImporterIdle
    /\ WorkflowIdle
    /\ \E frames \in ClientFrames : frames["c2"] = << >> /\ ServerAt(frames)
    /\ conversations = << >>
    /\ now = 0

NextHandler ==
    \/ Receive("c1")
    \/ AgentAnswers("c1")
    \/ AgentRaises("c1")
    \/ Parallel1("c1")
    \/ Parallel2("c1")
    \/ Parallel3("c1")
    \/ GatherReturns("c1")
    \/ HandleException("c1")
    \/ ClientCloses("c1")

SpecHandler == InitHandler /\ [][NextHandler]_vars

-----------------------------------------------------------------------------
(* The repository on a store whose vector extensions may fail to load *)

\* conn.load_extension succeeds or raises
Loads == BOOLEAN

\* the result of a call, given what load_extension did
OnStore(result, loads) == IF loads THEN result ELSE ExtensionLoadFails(result)

SearchByTitleOnStore ==
    /\ Idle
    /\ \E query \in TitleQueries, limit \in Limits, order \in NeighbourOrders(vss_books),
          loads \in Loads :
          call' = OnStore(SearchByTitle(query, limit, order), loads)
    /\ UNCHANGED <<catalog, prev, process, importer, workflow, server>>

SearchByCriteriaOnStore ==
    /\ Idle
    /\ \E author \in AuthorQueries \cup {Empty}, genre \in GenreFilters,
          query \in FreeQueries, model \in BOOLEAN, limit \in Limits,
          order \in NeighbourOrders(vss_books), loads \in Loads :
          call' = OnStore(SearchByCriteria(author, genre, query, model, limit, order), loads)
    /\ UNCHANGED <<catalog, prev, process, importer, workflow, server>>

RecommendSimilarOnStore ==
    /\ Idle
    /\ \E reference \in References, limit \in Limits, inf \in Inference,
          order \in NeighbourOrders(vss_books), loads \in Loads :
          call' = OnStore(RecommendSimilar(reference, limit, inf[1], inf[2], order), loads)
    /\ UNCHANGED <<catalog, prev, process, importer, workflow, server>>

RecommendByAuthorOnStore ==
    /\ Idle
    /\ \E author_query \in AuthorQueries, limit \in Limits, inf \in Inference,
          order \in NeighbourOrders(vss_books), loads \in Loads :
          call' = OnStore(RecommendByAuthor(author_query, limit, inf[1], inf[2], order), loads)
    /\ UNCHANGED <<catalog, prev, process, importer, workflow, server>>

NextStore ==
    \/ SearchByTitleOnStore
    \/ SearchByCriteriaOnStore
    \/ RecommendSimilarOnStore
    \/ RecommendByAuthorOnStore
    \/ Return

SpecStore == Init /\ [][NextStore]_vars
-----------------------------------------------------------------------------
(* Vocabulary of the properties *)

\* case folding of the full alphabet (n-tilde included), as a reader of the
\* specification understands "case-insensitive"
CaseFold(c) == IF c = "N~" THEN "n~" ELSE SqlFold(c)

FoldText(s) == [i \in DOMAIN s |-> CaseFold(s[i])]

\* w occurs in s, character for character
Contains(s, w) ==
    \E i \in 1..(Len(s) - Len(w) + 1) : SubSeq(s, i, i + Len(w) - 1) = w

\* w occurs in s up to letter case
ContainsNoCase(s, w) == Contains(FoldText(s), FoldText(w))

\* the two texts are equal up to letter case
SameNoCase(s, t) == FoldText(s) = FoldText(t)

\* the genre tokens of a label, as recommend_similar splits it
TokensOf(label) == Range(GenreTokens(label))

ReturnedIds == Range(call.rows)

IsRecommendation == call.op \in {"recommend_similar", "recommend_by_author"}

-----------------------------------------------------------------------------
(* C1 - genre containment of recommend_similar *)

-----------------------------------------------------------------------------
(* C2 - empty-genre short-circuit *)

\* C2: when the catalog gave no genre and the inference fallback, consulted,
\* answers with an empty or whitespace-only text, recommend_similar and
\* recommend_by_author return the empty list and do not raise.
C2_EmptyGenreShortCircuit ==
    (IsRecommendation /\ call.llm_invoked /\ Strip(call.reply) = Empty) =>
        (call.rows = << >> /\ ~call.raised)

-----------------------------------------------------------------------------
(* C3 - author filter of criteria search *)

\* C3: search_by_criteria with an author and no free-text query, called with
\* the embedding model as the tool does, returns only Books whose author
\* contains every whitespace-separated word of the author argument.
C3_AuthorFilter ==
    (/\ call.op = "search_by_criteria"
     /\ call.author # Empty /\ call.text = Empty /\ call.model) =>
        \A i \in ReturnedIds :
            \A w \in Range(SplitWords(call.author)) : ContainsNoCase(books[i].autor, w)

-----------------------------------------------------------------------------
(* C4 - inferred-genre recommendation *)

\* the reference text is the title (or part of the title) of no catalog Book
ReferenceAbsent ==
    /\ call.text # Empty
    /\ \A i \in Ids : ~ContainsNoCase(books[i].titulo, call.text)

\* C4: when the reference names a book absent from a non-empty catalog and
\* the inference fallback answers L, every Book returned by recommend_similar
\* has a genre matching at least one comma-split token of L.
C4_InferredGenreDrivesFilter ==
    (/\ call.op = "recommend_similar"
     /\ call.llm_model /\ books # << >> /\ ReferenceAbsent) =>
        \A i \in ReturnedIds :
            \E t \in TokensOf(Strip(call.reply)) : LikeContains(books[i].genero, t)

-----------------------------------------------------------------------------
(* C5 - exact-match precedence of search_by_title *)

\* C5: when the query is a case-insensitive substring of a catalog title,
\* search_by_title returns a Book whose title contains the query, without
\* embedding the query and without opening the vector index.
C5_ExactMatchPrecedence ==
    (/\ call.op = "search_by_title"
     /\ \E i \in Ids : ContainsNoCase(books[i].titulo, call.text)) =>
        /\ call.rows # << >>
        /\ \A i \in ReturnedIds : ContainsNoCase(books[i].titulo, call.text)
        /\ ~call.encoded
        /\ call.connections = 0

-----------------------------------------------------------------------------
(* C6 - result cap *)

-----------------------------------------------------------------------------
(* C7 - self-exclusion of recommend_similar *)

\* C7: when the nearest-neighbour lookup resolved the reference to a catalog
\* row, recommend_similar does not return that row, on the genre-filtered path
\* and on the widened path alike.
C7_SelfExclusion ==
    (call.op = "recommend_similar" /\ call.ref_book_id \in Ids) =>
        call.ref_book_id \notin ReturnedIds

\* the reference row was among the rows of its own genre, and others were returned
C7_Witness ==
    /\ call.op = "recommend_similar"
    /\ call.path = "genre"
    /\ call.ref_book_id \in call.genre_book_ids
    /\ call.rows # << >>

-----------------------------------------------------------------------------
(* C8 - author exclusion of recommend_by_author *)

\* C8: when recommend_by_author matched an author in the catalog
\* (actual_author), no returned Book has an author field equal to it.
C8_AuthorExclusion ==
    (call.op = "recommend_by_author" /\ call.actual_author # Empty) =>
        \A i \in ReturnedIds : books[i].autor # call.actual_author

\* an author was matched, a Book of that author is in one of the genres
\* searched, and Books of others were returned
C8_Witness ==
    /\ call.op = "recommend_by_author"
    /\ call.actual_author # Empty
    /\ call.rows # << >>
    /\ \E i \in GenreBookIds(call.genres) : books[i].autor = call.actual_author

-----------------------------------------------------------------------------
(* C9 - similar-author scenario *)

-----------------------------------------------------------------------------
(* C10 - no eligible genre *)

\* no catalog Book has a genre matching a token of the inferred label
NoBookInInferredGenre ==
    \A i \in Ids : \A t \in TokensOf(Strip(call.reply)) : ~LikeContains(books[i].genero, t)

-----------------------------------------------------------------------------
(* C11 - no exception for "no results" *)

\* C11: with the store and the models available, none of search_by_title,
\* search_by_criteria, recommend_similar and recommend_by_author raises,
\* whatever the input text (empty and whitespace-only included) and the
\* catalog (the empty one included).
C11_NeverRaises ==
    call.op \in {"search_by_title", "search_by_criteria",
                 "recommend_similar", "recommend_by_author"} => ~call.raised

-----------------------------------------------------------------------------
(* C12 - shape and termination of the control loop *)

\* the four ways through the graph
WorkflowPaths ==
    { <<"start", "plan_and_search">> \o search \o <<"check_results">> \o recommend \o <<"format">> :
        search \in {<< >>, <<"execute_search">>},
        recommend \in {<< >>, <<"execute_recommend">>} }

IsPrefix(s, t) == Len(s) <= Len(t) /\ SubSeq(t, 1, Len(s)) = s

\* the nodes run so far are the beginning of one of the four ways, the whole
\* of one at END; at most 3 model invocations, at most 2 tool stages
ControlLoopShape ==
    /\ \E path \in WorkflowPaths : IsPrefix(trace, path)
    /\ node = "END" => trace \in WorkflowPaths
    /\ invocations <= 3
    /\ Cardinality({i \in DOMAIN trace : trace[i] \in {"execute_search", "execute_recommend"}}) <= 2

-----------------------------------------------------------------------------
(* C13 - guards of the two tool stages *)

Ran(stage) == \E i \in DOMAIN trace : trace[i] = stage

Entered(stage) == node = stage \/ Ran(stage)

\* the model responses of the invocation that answer one of these prompts
Responses(prompts) ==
    {i \in DOMAIN messages : messages[i].type = "ai" /\ messages[i].prompt \in prompts}

RecommendPrompts == {"recommend_by_author", "recommend_similar_books"}

\* C13: execute_search is entered iff the response of plan_and_search holds
\* a tool call; execute_recommend is entered iff check_results asked the
\* model again and that response holds a tool call - so when check_results
\* adds no message the route is format, whatever the earlier messages hold.
C13_ToolStageGuards ==
    /\ Ran("plan_and_search") =>
          (Entered("execute_search") <=>
              \E i \in Responses({"plan"}) : messages[i].tool_calls # << >>)
    /\ Ran("check_results") =>
          (Entered("execute_recommend") <=>
              \E i \in Responses(RecommendPrompts) : messages[i].tool_calls # << >>)

\* the plan response held a tool call, check_results added no message, and
\* the route went to format
C13_Witness ==
    /\ node = "format"
    /\ Ran("execute_search")
    /\ Responses(RecommendPrompts) = {}
    /\ \E i \in Responses({"plan"}) : messages[i].tool_calls # << >>

-----------------------------------------------------------------------------
(* C14 - recommendation only after an empty search *)

\* the tool result holds a Book dictionary
HoldsBook(content) == Within(<<"{">>, content)

\* C14: check_results asks the model for a recommendation only if the most
\* recent tool result holds no Book, whatever the text of a Book's fields.
C14_RecommendOnlyAfterEmptySearch ==
    \A i \in Responses(RecommendPrompts) :
        LET before == ToolMessages(SubSeq(messages, 1, i - 1))
        IN  ~HoldsBook(before[Len(before)].content)

-----------------------------------------------------------------------------
(* C15 - single load of the expensive resources *)

\* C15: within one process the sentence-embedding model is constructed at
\* most once and the genre-inference client at most once, whichever tools
\* are called and however their first calls interleave.
C15_SingleLoad ==
    /\ constructed.SentenceTransformer <= 1
    /\ constructed.ChatAnthropic <= 1

-----------------------------------------------------------------------------
(* C16 - book / embedding pairing after the import *)

\* C16: after import_books has completed, every row of books has exactly one
\* record of vss_books with its id as rowid, and every record of vss_books
\* has its row of books - also after a duplicate isbn and after an INSERT
\* that raised inside the per-row try block.
C16_Pairing ==
    importer.pc = "done" =>
        /\ \A i \in DOMAIN books : Cardinality(RecordsOf(i)) = 1
        /\ \A k \in DOMAIN importer.vss_rows : importer.vss_rows[k] \in DOMAIN books

-----------------------------------------------------------------------------
(* C17 - the connection survives a failed turn *)

\* the step out of the except clause: exactly one more envelope, the error
\* envelope of the exception; the connection open, no frame lost, the
\* handler back at the head of its loop
FailureAnswered(c) ==
    (handler[c].pc = "except" /\ handler'[c] # handler[c]) =>
        /\ websocket'[c].sent = websocket[c].sent \cup
              {[ErrorEnvelope(handler[c].error) EXCEPT !.after = websocket[c].read]}
        /\ websocket'[c].open
        /\ websocket'[c].inbound = websocket[c].inbound
        /\ handler'[c] = Receiving

\* a connection is closed only by its client, after its last frame was read
ClosedByClientOnly(c) ==
    ~websocket[c].open => (websocket[c].inbound = << >> /\ handler[c].pc = "closed")

\* C17: when processing a frame raises (agent, persistence or a downstream
\* service), the handler sends an error envelope for it, keeps the connection
\* open and goes on with the next frame.
C17_ConnectionSurvives ==
    /\ [](\A c \in Connections : ClosedByClientOnly(c))
    /\ [][\A c \in Connections : FailureAnswered(c)]_vars

\* on an open connection, the error envelope of a failed turn is followed by
\* the heartbeat reply to the next frame
C17_Witness ==
    \E c \in Connections :
        /\ websocket[c].open
        /\ \E failed, next \in websocket[c].sent :
              /\ failed.type = "error"
              /\ failed.error \in {"agent", "persistence", "service"}
              /\ next.type = "alive"
              /\ next.after > failed.after

-----------------------------------------------------------------------------
(* C18 - independence of connections *)

\* C18: the history the start stage loads for a turn of a connection holds
\* only turns of that connection (here: every user message in it was sent on
\* that connection).
C18_OwnHistory ==
    \A c \in Connections :
        \A i \in DOMAIN history[c] :
            history[c][i].role = "human" => history[c][i].message = UserText(c)

-----------------------------------------------------------------------------
(* C19 - identical calls return the same Books *)

-----------------------------------------------------------------------------
(* C20 - retrieval is read-only *)

\* C20: no call of search_by_title, search_by_criteria, recommend_similar or
\* recommend_by_author, direct or through a tool, changes a row of books or a
\* record of vss_books.
C20_ReadOnly ==
    [][call'.op \in {"search_by_title", "search_by_criteria",
                     "recommend_similar", "recommend_by_author"}
          => (books' = books /\ vss_books' = vss_books)]_vars

\* a tool call that read the index and returned Books of a catalog of
\* several rows
C20_Witness ==
    /\ call.via = "tool"
    /\ call.connections = 1
    /\ call.rows # << >>
    /\ Len(books) > 1
    /\ vss_books = DOMAIN books
-----------------------------------------------------------------------------
(* C21 - genre labels as tag sets in recommend_by_author *)

\* the comma-separated tags of the genre labels collected for the matched author
MatchedAuthorTags == UNION {TokensOf(label) : label \in call.genres}

\* C21: when recommend_by_author matched the author in the catalog, a Book of
\* another author is eligible (in the enumerated genre set) iff its genre
\* matches at least one comma-separated tag of one of the matched author's
\* genre labels, as recommend_similar matches the tags of the reference label.
C21_TagEligibility ==
    (call.op = "recommend_by_author" /\ call.actual_author # Empty) =>
        \A i \in Ids :
            books[i].autor # call.actual_author =>
                (i \in call.genre_book_ids
                    <=> \E t \in MatchedAuthorTags : LikeContains(books[i].genero, t))

-----------------------------------------------------------------------------
(* C22 - pre-filters in the free-text branch of search_by_criteria *)

\* C22: when search_by_criteria is called with a free-text query (and the
\* embedding model) together with an author and/or a genre, every returned
\* Book matches the supplied genre substring and every supplied author word.
C22_FreeTextPreFilters ==
    (/\ call.op = "search_by_criteria"
     /\ call.text # Empty /\ call.model
     /\ (call.author # Empty \/ call.genre # Empty)) =>
        \A i \in ReturnedIds :
            /\ call.genre # Empty => LikeContains(books[i].genero, call.genre)
            /\ \A w \in Range(SplitWords(call.author)) : LikeContains(books[i].autor, w)

-----------------------------------------------------------------------------
(* C23 - the genre-filtered recommendation as a reference operator *)

\* the catalog Books matching a comma-split tag of the determined genre label
MatchingGenreLabel ==
    {i \in Ids : \E t \in call.genres : LikeContains(books[i].genero, t)}

\* the first `limit`, in neighbour-search order, of the rows among the 50
\* nearest neighbours that are eligible and are not the reference row
FirstEligible ==
    LET eligible == MatchingGenreLabel \ {call.ref_book_id}
        ranks == {k \in 1..Min(BroadSearch, Len(call.order)) : call.order[k] \in eligible}
    IN  {call.order[k] : k \in {r \in ranks :
            Cardinality({q \in ranks : q < r}) < call.limit}}

\* at least 2 Books match the label, or at least 1 and no reference row
GenreFilteredCase ==
    \/ Cardinality(MatchingGenreLabel) >= 2
    \/ Cardinality(MatchingGenreLabel) >= 1 /\ call.ref_book_id = 0

\* C23: in the genre-filtered case recommend_similar returns exactly the first
\* `limit` rows, in neighbour-search order, of the 50 nearest neighbours that
\* are in the eligible genre set and are not the reference row; an eligible
\* Book ranked below the 50 neighbours is never returned.
C23_BroadSearchOperator ==
    (call.op = "recommend_similar" /\ GenreFilteredCase) =>
        /\ ReturnedIds = FirstEligible
        /\ Len(call.rows) = Cardinality(ReturnedIds)
        /\ \A k \in DOMAIN call.order : k > BroadSearch => call.order[k] \notin ReturnedIds

\* fewer than `limit` Books were returned while an eligible Book, not the
\* reference, ranked below the 50 neighbours
C23_Witness ==
    /\ call.op = "recommend_similar"
    /\ GenreFilteredCase
    /\ call.rows # << >>
    /\ Len(call.rows) < call.limit
    /\ \E k \in DOMAIN call.order :
          /\ k > BroadSearch
          /\ call.order[k] \in MatchingGenreLabel
          /\ call.order[k] # call.ref_book_id

-----------------------------------------------------------------------------
(* C24 - the widening branch of recommend_similar *)

\* the `limit` nearest neighbours of the reference embedding
NearestNeighbours == {call.order[k] : k \in 1..Min(call.limit, Len(call.order))}

-----------------------------------------------------------------------------
(* C25 - recommendations come from other authors *)

\* the author strings of the candidate window that match the first word of
\* the query: the authors whose genres are collected
MatchedAuthors ==
    LET window == Range(Take(call.order, AuthorCandidates))
        words  == SplitWords(call.text)
    IN  IF words = << >> THEN {}
        ELSE {books[i].autor : i \in {j \in Ids \cap window :
                                        LikeContains(books[j].autor, words[1])}}

\* C25: when the candidate window of recommend_by_author holds rows of
\* several distinct author strings matching the query's first word, no
\* returned Book is by one of these matched authors.
C25_OtherAuthorsOnly ==
    (call.op = "recommend_by_author" /\ Cardinality(MatchedAuthors) >= 2) =>
        \A i \in ReturnedIds : books[i].autor \notin MatchedAuthors

-----------------------------------------------------------------------------
(* C26 - the matching recommendation tool *)

\* the recommendation tool that matches the user query
MatchingTool ==
    IF AboutAuthor(input_user) THEN "recommend_by_author" ELSE "recommend_similar_books"

\* C26: when check_results asks the model again, it asks for
\* recommend_by_author iff the lower-cased user query contains one of the
\* author words, for recommend_similar_books otherwise; and every operation
\* that execute_recommend runs is that recommendation operation.
C26_MatchingRecommendationTool ==
    \A i \in Responses(RecommendPrompts) :
        /\ messages[i].prompt = MatchingTool
        /\ Ran("execute_recommend") =>
              \A k \in DOMAIN messages[i].tool_calls :
                  messages[i].tool_calls[k].name = MatchingTool

-----------------------------------------------------------------------------
(* C27 - the final text comes from the format stage *)

\* result["messages"][-1] once the workflow has reached END
FinalMessage == messages[Len(messages)]

\* the message was added by the format stage: the fixed sentence, or the
\* model's answer to the humanize prompt
AddedByFormat(m) ==
    /\ m.type = "ai"
    /\ m.tool_calls = << >>
    /\ IF ToolMessages(messages) = << >>
       THEN m.content = NoInformation /\ m.prompt = "none"
       ELSE m.prompt = "humanize"

\* C27: the text process_message returns is the message the format stage
\* appended; when the turn produced no tool result it is the fixed sentence,
\* the model was invoked by plan_and_search only, and the plain text that
\* plan_and_search answered is not what the caller gets.
C27_FinalTextFromFormat ==
    node = "END" =>
        /\ trace[Len(trace)] = "format"
        /\ AddedByFormat(FinalMessage)
        /\ ToolMessages(messages) = << >> =>
              /\ FinalMessage.content = NoInformation
              /\ invocations = 1
              /\ \A i \in Responses({"plan"}) :
                    /\ i # Len(messages)
                    /\ messages[i].content # FinalMessage.content

\* a turn in which plan_and_search answered with plain text and no tool call
C27_Witness ==
    /\ node = "END"
    /\ ToolMessages(messages) = << >>
    /\ \E i \in Responses({"plan"}) : messages[i].content \in PlanTexts

-----------------------------------------------------------------------------
(* C28 - per-connection ordering of envelopes *)

\* C28: on one connection every result envelope (audio/visemes, expressions,
\* animations) of inbound message k went out while message k was the last
\* frame read - before the handler took message k+1, hence before or with the
\* turn's error envelope - also when a gathered branch raised while the
\* others were still running.
C28_EnvelopeOrdering ==
    \A c \in Connections :
        \A envelope \in websocket[c].sent :
            envelope.message_id # 0 => envelope.after = envelope.message_id

-----------------------------------------------------------------------------
(* C30 - routing of an inbound frame *)

\* the handler of connection c answers the frame it reads in this step with
\* this envelope - at once, or from its except clause - and does not call
\* the agent
AnsweredWith(c, envelope) ==
    /\ \/ /\ websocket'[c].sent = websocket[c].sent \cup
                                      {[envelope EXCEPT !.after = websocket'[c].read]}
          /\ handler'[c].pc = "receive"
       \/ /\ websocket'[c].sent = websocket[c].sent
          /\ handler'[c].pc = "except"
          /\ ErrorEnvelope(handler'[c].error) = envelope
    /\ tasks'[c] = tasks[c]

\* the outcome the frame's kind calls for
Routed(c, kind) ==
    CASE kind = "alive" -> AnsweredWith(c, AliveEnvelope)
      [] kind = "invalid_json" -> AnsweredWith(c, ErrorEnvelope("JSON invalido"))
      [] kind \in {"incomplete", "scalar"} ->
            AnsweredWith(c, ErrorEnvelope("Formato de mensaje invalido"))
      [] kind = "turn" ->
            /\ handler'[c].pc = "agent"
            /\ handler'[c].message = UserText(c)
            /\ handler'[c].id = websocket'[c].read
            /\ websocket'[c].sent = websocket[c].sent

\* C30: every inbound frame has exactly the outcome of its kind: 'alive' is
\* answered with 'alive', text that is no JSON with the 'JSON invalido'
\* envelope, valid JSON without 'message' or 'id' with the invalid-format
\* envelope - none of them reaching the agent - and any other frame starts
\* one agent call with the frame's message and id.
C30_FrameRouting ==
    [][\A c \in Connections :
          websocket'[c].read # websocket[c].read =>
              Routed(c, Head(websocket[c].inbound))]_vars

-----------------------------------------------------------------------------
(* C29 - release of the vector-search connections *)

\* C29: each call of search_by_title, search_by_criteria, recommend_similar
\* and recommend_by_author opens at most one raw store connection, and every
\* connection it opened is closed when the call returns or raises - on the
\* early empty returns, on a query error, and when the extensions fail to
\* load.
C29_ConnectionsReleased ==
    call.op \in {"search_by_title", "search_by_criteria",
                 "recommend_similar", "recommend_by_author"} =>
        /\ call.connections <= 1
        /\ call.closed = call.connections

====
